---- MODULE Spec2Model ----
(***************************************************************************)
(* Model of the JNI bootstrap shim of react-native-ondevice-ai             *)
(* (android/src/main/cpp/cpp-adapter.cpp):                                 *)
(*                                                                         *)
(*   jint JNI_OnLoad(JavaVM vm, void reserved):                            *)
(*     return margelo::nitro::ondeviceai::initialize(vm)                   *)
(*                                                                         *)
(* The hook is one synchronous call.  The model follows the control of the *)
(* loading thread: the host runtime calls the hook, the hook calls the     *)
(* external initializer, the initializer runs and returns a status, the    *)
(* hook returns that status, and the host decides what the load was.       *)
(* Pointers are small naturals (0 is the null pointer), statuses are the   *)
(* jint values of jni.h.                                                   *)
(***************************************************************************)
EXTENDS Integers, Sequences, FiniteSets

VARIABLES
    pc,         \* where the loading thread is
    loads,      \* number of loads of the library the host has started
    hostCall,   \* <<>>, or <<[vm, reserved]>>: what the host passed to the hook
    frame,      \* <<>>, or <<[vm, reserved]>>: the hook's activation (its parameters)
    initArg,    \* <<>>, or <<p>>: the argument the initializer received
    initRet,    \* <<>>, or <<r>>: the status the initializer returned
    hookRet,    \* <<>>, or <<r>>: the status the host received from the hook
    initCalls,  \* per load: how often the initializer has been invoked
    javaVM,     \* host-owned state behind each handle (registrations made on it)
    log         \* the finished loads, as the host saw them

vars == <<pc, loads, hostCall, frame, initArg, initRet, hookRet, initCalls, javaVM, log>>

(* ------------------------------ bounds --------------------------------- *)

\* number of distinct valid JavaVM handles the host may pass
MaxHandles == 2
\* the reserved pointer ranges over 0..MaxReserved (0 is the null pointer)
MaxReserved == 1
\* number of loads of the library the host performs
MaxLoads == 2
\* number of steps of work the initializer can do on one JavaVM
MaxInitSteps == 1

(* ------------------------- constants of jni.h -------------------------- *)

JNI_OK == 0
JNI_ERR == -1
JNI_EVERSION == -3
JNI_VERSION_1_2 == 65538
JNI_VERSION_1_4 == 65540
JNI_VERSION_1_6 == 65542

Handles == 1..MaxHandles
Reserved == 0..MaxReserved
Loads == 1..MaxLoads

\* the statuses the external initializer can return: the success sentinel, two
\* failure sentinels, and a value that is neither a version nor an error code
Statuses == {JNI_VERSION_1_6, JNI_ERR, JNI_EVERSION, JNI_OK}
FailureStatuses == {r \in Statuses : r < 0}
\* the versions the host runtime accepts from a load hook
SupportedVersions == {JNI_VERSION_1_2, JNI_VERSION_1_4, JNI_VERSION_1_6}

(* --------------------------- the load hook ----------------------------- *)

\* mutant: the hook hands the reserved pointer on when it is not null
InitializerArgument_Reserved(vm, reserved) == IF reserved # 0 THEN reserved ELSE vm

\* mutant: the hook hands a null handle on
InitializerArgument_Null(vm, reserved) == 0

\* the argument expression of the call in line 13: initialize(vm)
InitializerArgument(vm, reserved) == vm

\* mutant: every failure status is normalised to JNI_ERR
ReturnedStatus_Clamp(r) == IF r < 0 THEN JNI_ERR ELSE r

\* mutant: a failure status is swallowed and success reported
ReturnedStatus_Swallow(r) == IF r < 0 THEN JNI_VERSION_1_6 ELSE r

\* the operand of the return statement in line 13: the initializer's result
ReturnedStatus(r) == r

\* mutant: the hook invokes the initializer twice
JNI_OnLoad_call_Twice ==
    /\ pc = "hook_entry"
    /\ initArg' = <<InitializerArgument(frame[1].vm, frame[1].reserved)>>
    /\ initCalls' = [initCalls EXCEPT ![loads] = @ + 2]
    /\ pc' = "in_initialize"
    /\ UNCHANGED <<loads, hostCall, frame, initRet, hookRet, javaVM, log>>

\* mutant: the hook itself registers on the JavaVM before it forwards the handle
JNI_OnLoad_call_Touch ==
    /\ pc = "hook_entry"
    /\ initArg' = <<InitializerArgument(frame[1].vm, frame[1].reserved)>>
    /\ initCalls' = [initCalls EXCEPT ![loads] = @ + 1]
    /\ javaVM' = [javaVM EXCEPT ![frame[1].vm] = IF @ < MaxInitSteps THEN @ + 1 ELSE @]
    /\ pc' = "in_initialize"
    /\ UNCHANGED <<loads, hostCall, frame, initRet, hookRet, log>>

\* JNI_OnLoad, line 13, first half: the call initialize(vm)
JNI_OnLoad_call ==
    /\ pc = "hook_entry"
    /\ initArg' = <<InitializerArgument(frame[1].vm, frame[1].reserved)>>
    /\ initCalls' = [initCalls EXCEPT ![loads] = @ + 1]
    /\ pc' = "in_initialize"
    /\ UNCHANGED <<loads, hostCall, frame, initRet, hookRet, javaVM, log>>

\* mutant: the hook calls the initializer again after a failure status
JNI_OnLoad_return_Retry ==
    /\ pc = "init_returned"
    /\ IF initRet[1] < 0 /\ initCalls[loads] < 2
       THEN /\ initCalls' = [initCalls EXCEPT ![loads] = @ + 1]
            /\ initRet' = <<>>
            /\ pc' = "in_initialize"
            /\ UNCHANGED <<frame, hookRet>>
       ELSE /\ hookRet' = <<ReturnedStatus(initRet[1])>>
            /\ frame' = <<>>
            /\ pc' = "returned"
            /\ UNCHANGED <<initCalls, initRet>>
    /\ UNCHANGED <<loads, hostCall, initArg, javaVM, log>>

\* mutant: the hook terminates the process on a status that is not a version
JNI_OnLoad_return_Abort ==
    /\ pc = "init_returned"
    /\ IF initRet[1] \in SupportedVersions
       THEN /\ hookRet' = <<ReturnedStatus(initRet[1])>>
            /\ frame' = <<>>
            /\ pc' = "returned"
       ELSE /\ pc' = "aborted"
            /\ UNCHANGED <<frame, hookRet>>
    /\ UNCHANGED <<loads, hostCall, initArg, initRet, initCalls, javaVM, log>>

\* mutant: the hook waits, after the initializer returned, for a signal that never comes
JNI_OnLoad_return_Wait ==
    /\ pc = "init_returned"
    /\ UNCHANGED vars

\* JNI_OnLoad, line 13, second half: return of the initializer's result to the host
JNI_OnLoad_return ==
    /\ pc = "init_returned"
    /\ hookRet' = <<ReturnedStatus(initRet[1])>>
    /\ frame' = <<>>
    /\ pc' = "returned"
    /\ UNCHANGED <<loads, hostCall, initArg, initRet, initCalls, javaVM, log>>

(* ---------------------- the external initializer ----------------------- *)

\* margelo::nitro::ondeviceai::initialize at work on the JavaVM it was given
initialize_work ==
    /\ pc = "in_initialize"
    /\ initArg[1] \in Handles
    /\ javaVM[initArg[1]] < MaxInitSteps
    /\ javaVM' = [javaVM EXCEPT ![initArg[1]] = @ + 1]
    /\ UNCHANGED <<pc, loads, hostCall, frame, initArg, initRet, hookRet, initCalls, log>>

\* margelo::nitro::ondeviceai::initialize returns an integer status
initialize_return ==
    /\ pc = "in_initialize"
    /\ \E r \in Statuses : initRet' = <<r>>
    /\ pc' = "init_returned"
    /\ UNCHANGED <<loads, hostCall, frame, initArg, hookRet, initCalls, javaVM, log>>

(* -------------------------- the host runtime --------------------------- *)

\* the host loads the library and calls JNI_OnLoad(vm, reserved)
HostLoad ==
    /\ pc = "idle"
    /\ loads < MaxLoads
    /\ \E h \in Handles, p \in Reserved :
          /\ hostCall' = <<[vm |-> h, reserved |-> p]>>
          /\ frame' = <<[vm |-> h, reserved |-> p]>>
    /\ loads' = loads + 1
    /\ pc' = "hook_entry"
    /\ UNCHANGED <<initArg, initRet, hookRet, initCalls, javaVM, log>>

\* the host's verdict on the status the hook returned
LoadOutcome(r) == IF r \in SupportedVersions THEN "loaded" ELSE "failed"

\* the host takes the hook's result and ends the load
HostFinishLoad ==
    /\ pc = "returned"
    /\ log' = log \cup {[vm |-> hostCall[1].vm, reserved |-> hostCall[1].reserved,
                         initArg |-> initArg[1], initRet |-> initRet[1],
                         hookRet |-> hookRet[1], outcome |-> LoadOutcome(hookRet[1])]}
    /\ hostCall' = <<>>
    /\ initArg' = <<>>
    /\ initRet' = <<>>
    /\ hookRet' = <<>>
    /\ pc' = "idle"
    /\ UNCHANGED <<loads, frame, initCalls, javaVM>>

(* --------------------------- specification ----------------------------- *)

Init ==
    /\ pc = "idle"
    /\ loads = 0
    /\ hostCall = <<>>
    /\ frame = <<>>
    /\ initArg = <<>>
    /\ initRet = <<>>
    /\ hookRet = <<>>
    /\ initCalls = [l \in Loads |-> 0]
    /\ javaVM = [h \in Handles |-> 0]
    /\ log = {}

Next ==
    \/ HostLoad
    \/ JNI_OnLoad_call
    \/ initialize_work
    \/ initialize_return
    \/ JNI_OnLoad_return
    \/ HostFinishLoad

Spec == Init /\ [][Next]_vars

\* The hook runs on the loading thread without a wait of its own: once it is
\* entered, or once the initializer has returned, its next step is taken.
\* Nothing is assumed of the initializer or of the host.
FairSpec == Spec /\ WF_vars(JNI_OnLoad_call) /\ WF_vars(JNI_OnLoad_return)

\* the hook has returned to the host for load l
HookReturned(l) == l < loads \/ (l = loads /\ pc \in {"returned", "idle"})

\* the number of invocations of the initializer in the loads 1..n
RECURSIVE InitCallsUpTo(_)
InitCallsUpTo(n) == IF n = 0 THEN 0 ELSE initCalls[n] + InitCallsUpTo(n - 1)

(* ------------------------------ claims --------------------------------- *)

\* C1: the status the host receives from JNI_OnLoad is exactly the status the
\* initializer returned, whatever it is: while the host holds the hook's result,
\* and in every finished load, the two are equal.
C1_ReturnsInitializerResult ==
    /\ pc = "returned" => hookRet = initRet
    /\ \A e \in log : e.hookRet = e.initRet

\* the success scenario: the initializer returned the version, and the host holds it
C1_Witness ==
    /\ pc = "returned"
    /\ initRet = <<JNI_VERSION_1_6>>
    /\ hookRet = <<JNI_VERSION_1_6>>

\* C2: the argument the initializer receives is exactly the handle the host
\* passed to the hook, from the call on and in every finished load.
C2_ForwardsHandle ==
    /\ pc \in {"in_initialize", "init_returned", "returned"} => initArg = <<hostCall[1].vm>>
    /\ \A e \in log : e.initArg = e.vm

\* the initializer is running with the last handle, passed beside a non-null reserved pointer
C2_Witness ==
    /\ pc = "in_initialize"
    /\ hostCall[1].vm = MaxHandles
    /\ hostCall[1].reserved # 0
    /\ initArg = <<MaxHandles>>

\* C3: no invocation of the hook ends abnormally: the thread is never in the
\* aborted state, and whatever status the initializer returned, the hook's
\* return to the host is the step it can take.
C3_NoAbnormalTermination ==
    /\ pc # "aborted"
    /\ pc = "init_returned" => ENABLED JNI_OnLoad_return

\* the hook returned normally on a status that is neither a version nor an error code
C3_Witness ==
    /\ pc = "returned"
    /\ initRet = <<JNI_OK>>
    /\ frame = <<>>

\* C4: a failure status of the initializer reaches the host as that same
\* status, never as a supported version, and the host ends the load as failed.
C4_FailureSurfaced ==
    /\ (pc = "returned" /\ initRet[1] \in FailureStatuses) =>
          (hookRet = initRet /\ hookRet[1] \notin SupportedVersions)
    /\ \A e \in log : e.initRet \in FailureStatuses =>
          (e.hookRet = e.initRet /\ e.outcome = "failed")

\* a load whose initializer returned JNI_ERR has ended, as failed
C4_Witness == \E e \in log : e.initRet = JNI_ERR /\ e.hookRet = JNI_ERR /\ e.outcome = "failed"

\* C5: every invocation of the hook that has returned invoked the initializer
\* exactly once, whatever status came back; and with one hook call per load the
\* initializer has been invoked as often as the hook has reached its call.
C5_ExactlyOncePerInvocation ==
    /\ \A l \in Loads : HookReturned(l) => initCalls[l] = 1
    /\ InitCallsUpTo(MaxLoads) = IF pc = "hook_entry" THEN loads - 1 ELSE loads

\* the second load's hook returned a failure status after one invocation
C5_Witness ==
    /\ pc = "returned"
    /\ loads = 2
    /\ initRet[1] \in FailureStatuses
    /\ initCalls[2] = 1

\* C6: per load the initializer is invoked at most once (not at all before the
\* load), and once the hook has returned for a load it stays returned and the
\* initializer is not invoked for that load again.
C6_CalledIsTerminal ==
    /\ [](\A l \in Loads : initCalls[l] <= 1 /\ (l > loads => initCalls[l] = 0))
    /\ [][\A l \in Loads : HookReturned(l) =>
              (initCalls'[l] = initCalls[l] /\ HookReturned(l)')]_vars

\* the first load is over and a second one has invoked the initializer
C6_Witness ==
    /\ loads = 2
    /\ pc = "in_initialize"
    /\ initCalls[1] = 1
    /\ initCalls[2] = 1

\* C7: the hook's own steps leave the JavaVM state, the host's record of the
\* call and the finished loads as they are, its call leaves its parameters as
\* they are, and no activation of the hook is left once it has returned.
C7_HookKeepsNoState ==
    [][/\ pc \in {"hook_entry", "init_returned"} =>
             (javaVM' = javaVM /\ hostCall' = hostCall /\ log' = log)
       /\ pc = "hook_entry" => frame' = frame
       /\ pc' \in {"returned", "idle"} => frame' = <<>>]_vars

\* the hook has returned; the only change to the JavaVM is the initializer's
C7_Witness ==
    /\ pc = "returned"
    /\ frame = <<>>
    /\ javaVM[initArg[1]] = 1
    /\ \A h \in Handles : h # initArg[1] => javaVM[h] = 0

\* C8: the host has the hook's result only after the initializer returned, the
\* hook returns from nowhere but the initializer's return, and once the
\* initializer has returned the hook returns.
C8_SynchronousCall ==
    /\ [](hookRet # <<>> => initRet # <<>>)
    /\ [][pc' = "returned" => pc = "init_returned"]_vars
    /\ (pc = "init_returned") ~> (pc = "returned")

\* the hook returned after an initializer that worked on the JavaVM and reported a version error
C8_Witness ==
    /\ pc = "returned"
    /\ hookRet = <<JNI_EVERSION>>
    /\ javaVM[initArg[1]] = MaxInitSteps

\* C9: two finished loads with the same handle and the same initializer result
\* gave the initializer the same argument and the host the same status,
\* whatever their reserved arguments were.
C9_ReservedIgnored ==
    \A a, b \in log : (a.vm = b.vm /\ a.initRet = b.initRet) =>
        (a.initArg = b.initArg /\ a.hookRet = b.hookRet)

\* two finished loads that differ in the reserved argument only
C9_Witness ==
    \E a, b \in log : a.vm = b.vm /\ a.initRet = b.initRet /\ a.reserved # b.reserved

====
